---- MODULE Spec2Model ----
(***************************************************************************)
(* Model of server/server.py: a Flask application that receives BLE scan   *)
(* uploads (POST /api/esp32/ble), keeps them in the module-level list      *)
(* received_data, and serves three read-only views of that list.           *)
(*                                                                         *)
(* app.run(host, port, debug=True) starts werkzeug's development server,   *)
(* which handles every request in its own thread; the handlers take no     *)
(* lock, so the steps of two requests interleave at every access to the    *)
(* shared list and to the clock.                                           *)
(***************************************************************************)
EXTENDS Integers, Sequences, FiniteSets, TLC

(***************************************************************************)
(* Bounds of the model.                                                    *)
(***************************************************************************)
NumThreads == 2      \* request-handling threads running at once
MaxRequests == 3     \* requests dispatched in one behaviour
MaxUploads == 1      \* requests dispatched in one behaviour of SpecUpload
MaxTime == 1         \* latest reading of the server clock
MaxDevices == 6      \* longest devices list a payload carries

(***************************************************************************)
(* data['devices'][:5]: the summary lists the first five sightings only.   *)
(***************************************************************************)
LogLimit == 5

Threads == 1..NumThreads

(***************************************************************************)
(* JSON values as json.loads yields them.  A string is a sequence of       *)
(* chunks ("device_id", "devices", "x", " "); no chunk is made of parts of *)
(* other chunks, so Python's substring test is membership of a chunk.      *)
(* JTime(t) is the string datetime.isoformat() returns for clock value t;  *)
(* it occurs only as the value of received_at, never in a request.         *)
(***************************************************************************)
JNull == [k |-> "null"]
JBool(b) == [k |-> "bool", b |-> b]
JNum(n) == [k |-> "num", n |-> n]
JStr(s) == [k |-> "str", s |-> s]
JTime(t) == [k |-> "time", t |-> t]
JArr(a) == [k |-> "arr", a |-> a]
JObj(o) == [k |-> "obj", o |-> o]
NoKeys == [key \in {} |-> JNull]

(***************************************************************************)
(* Python truth value of a parsed body (`not data`); None stands for both  *)
(* JSON null and get_json returning None.                                  *)
(***************************************************************************)
Falsy(v) ==
    CASE v.k = "null" -> TRUE
      [] v.k = "bool" -> ~v.b
      [] v.k = "num" -> v.n = 0
      [] v.k = "str" -> v.s = <<>>
      [] v.k = "arr" -> v.a = <<>>
      [] v.k = "obj" -> DOMAIN v.o = {}
      [] OTHER -> FALSE

(***************************************************************************)
(* `key in data`: key lookup on a dict, element equality on a list,        *)
(* substring on a str; on an int or a bool it raises TypeError.            *)
(***************************************************************************)
SupportsIn(v) == v.k \in {"obj", "arr", "str"}

Contains(v, key) ==
    CASE v.k = "obj" -> key \in DOMAIN v.o
      [] v.k = "arr" -> \E i \in 1..Len(v.a) : v.a[i] = JStr(<<key>>)
      [] v.k = "str" -> \E i \in 1..Len(v.s) : v.s[i] = key
      [] OTHER -> FALSE

(***************************************************************************)
(* data[key] = value on a dict: adds the key or overwrites it.             *)
(***************************************************************************)
SetItem(v, key, val) ==
    JObj([x \in (DOMAIN v.o) \cup {key} |-> IF x = key THEN val ELSE v.o[x]])

(***************************************************************************)
(* len(x) is defined on lists, strings and dicts.                          *)
(***************************************************************************)
HasLen(v) == v.k \in {"arr", "str", "obj"}

ChunkLen(c) == IF c = "device_id" THEN 9 ELSE IF c = "devices" THEN 7 ELSE 1

RECURSIVE StrLen(_)
StrLen(s) == IF s = <<>> THEN 0 ELSE ChunkLen(Head(s)) + StrLen(Tail(s))

PyLen(v) ==
    CASE v.k = "arr" -> Len(v.a)
      [] v.k = "str" -> StrLen(v.s)
      [] v.k = "obj" -> Cardinality(DOMAIN v.o)
      [] OTHER -> 0

(***************************************************************************)
(* format(value, '15'): a width-only format spec is accepted by str, int,  *)
(* float and bool; None, list and dict raise TypeError.                    *)
(***************************************************************************)
Formattable(v) == v.k \in {"str", "num", "bool", "time"}

(***************************************************************************)
(* device.get(key, default): the value of key, or the default (always a    *)
(* str in the handler) when the key is absent.                             *)
(***************************************************************************)
Get(device, key) == IF key \in DOMAIN device.o THEN device.o[key] ELSE JStr(<<"x">>)

(***************************************************************************)
(* One pass of the summary loop over a sighting: "" when the line prints,  *)
(* else the exception it raises.                                           *)
(***************************************************************************)
PrintDevice(device) ==
    IF device.k # "obj" THEN "AttributeError"
    ELSE IF \E f \in {"name", "mac", "rssi"} : ~Formattable(Get(device, f))
         THEN "TypeError"
         ELSE ""

Min(a, b) == IF a < b THEN a ELSE b

(***************************************************************************)
(* Responses.  jsonify(...) with its status code; str(e) of a caught       *)
(* exception is kept as the exception's class name.                        *)
(***************************************************************************)
NoResponse == [op |-> "none", code |-> 0]
Error(code, msg) == [op |-> "ble", code |-> code, error |-> msg]
Ok(device_count) == [op |-> "ble", code |-> 200, status |-> "ok", received |-> device_count]

(***************************************************************************)
(* request.get_json() on a request with the given Content-Type and body.   *)
(* Each outcome is a returned value (exc = "") or a raised exception.      *)
(*  - Content-Type is not JSON: Flask before 2.1 returns None, Flask 2.1   *)
(*    and later raises UnsupportedMediaType; the repository pins no        *)
(*    version, so both are outcomes.                                       *)
(*  - JSON Content-Type, body empty or not JSON: on_json_loading_failed    *)
(*    raises BadRequest.                                                   *)
(***************************************************************************)
get_json(req) ==
    IF req.ctype # "json"
    THEN {[exc |-> "", val |-> JNull], [exc |-> "UnsupportedMediaType", val |-> JNull]}
    ELSE IF req.raw # "json"
         THEN {[exc |-> "BadRequest", val |-> JNull]}
         ELSE {[exc |-> "", val |-> req.val]}

\* Validate with the required-fields test looking for devices only
ValidateDevicesOnly(data) ==
    IF Falsy(data) THEN Error(400, "No data provided")
    ELSE IF ~SupportsIn(data) THEN Error(500, "TypeError")
    ELSE IF ~Contains(data, "devices") THEN Error(400, "Missing required fields")
    ELSE IF data.k # "obj" THEN Error(500, "TypeError")
    ELSE NoResponse

(***************************************************************************)
(* Lines 38-43 and the assignment of line 46, up to the first return or    *)
(* raise: the response the handler gives before storing anything, or       *)
(* NoResponse when the body goes on to be stamped and stored.              *)
(***************************************************************************)
Validate(data) ==
    IF Falsy(data) THEN Error(400, "No data provided")
    ELSE IF ~SupportsIn(data) THEN Error(500, "TypeError")
    ELSE IF ~Contains(data, "device_id") \/ ~Contains(data, "devices")
         THEN Error(400, "Missing required fields")
    ELSE IF data.k # "obj" THEN Error(500, "TypeError")
    ELSE NoResponse

(***************************************************************************)
(* Lines 52-74: the summary and the response, for a stored dict.  The set  *)
(* of responses the handler can give: one, except that slicing a dict      *)
(* raises TypeError up to Python 3.11 and KeyError from 3.12.              *)
(***************************************************************************)
FirstFailure(devices) ==
    LET n == Min(Len(devices), LogLimit)
        bad == {i \in 1..n : PrintDevice(devices[i]) # ""}
    IN  IF bad = {} THEN ""
        ELSE PrintDevice(devices[CHOOSE i \in bad : \A j \in bad : i <= j])

Summary(data) ==
    LET devices == data.o["devices"]
        device_count == PyLen(devices)
    IN  IF ~HasLen(devices) THEN {Error(500, "TypeError")}
        ELSE IF devices.k = "obj" THEN {Error(500, "TypeError"), Error(500, "KeyError")}
        ELSE IF devices.k = "str"
             THEN IF devices.s = <<>> THEN {Ok(device_count)}
                  ELSE {Error(500, "AttributeError")}
        ELSE IF FirstFailure(devices.a) # ""
             THEN {Error(500, FirstFailure(devices.a))}
             ELSE {Ok(device_count)}

(***************************************************************************)
(* Requests clients send.                                                  *)
(***************************************************************************)
Json(v) == [ctype |-> "json", raw |-> "json", val |-> v]
NoRequest == [ctype |-> "none", raw |-> "none", val |-> JNull]

X == JStr(<<"x">>)
Esp == JStr(<<"esp32-1">>)
Phone == JObj("name" :> JStr(<<"Phone">>) @@ "mac" :> JStr(<<"AA:BB:CC:DD:EE:FF">>)
              @@ "rssi" :> JNum(-60) @@ "vendor" :> JStr(<<"Acme">>))
Anonymous == JObj(NoKeys)
NullName == JObj("name" :> JNull @@ "mac" :> X)
ListRssi == JObj("rssi" :> JArr(<<>>))
NumMac == JObj("mac" :> JNum(5))
Upload(id, devs) == JObj("device_id" :> id @@ "devices" :> devs)

Unparsed ==
    { [ctype |-> "json", raw |-> "empty", val |-> JNull],
      [ctype |-> "json", raw |-> "garbage", val |-> JNull],
      [ctype |-> "other", raw |-> "empty", val |-> JNull] }

NonObjects ==
    { JNull, JNum(5), JArr(<<>>), JArr(<<JNum(5)>>),
      JStr(<<"device_id", " ", "devices">>),
      JArr(<<JStr(<<"device_id">>), JStr(<<"devices">>)>>) }

Incomplete ==
    { JObj(NoKeys), JObj("device_id" :> Esp), JObj("devices" :> JArr(<<>>)) }

Complete ==
    { Upload(Esp, JArr(<<Phone>>)),
      Upload(JNull, JNull),
      JObj("device_id" :> Esp @@ "devices" :> JArr(<<>>) @@ "received_at" :> X
           @@ "scan" :> JNum(5)) }

(***************************************************************************)
(* The POSTs of the full server model: one body of each outcome of the     *)
(* handler.  SpecUpload sends every body above.                            *)
(***************************************************************************)
Requests ==
    {[ctype |-> "json", raw |-> "garbage", val |-> JNull]}
        \cup {Json(v) : v \in {JObj("device_id" :> Esp)} \cup Complete}

(***************************************************************************)
(* Uploads with every shape of devices value, for the summary step: lists  *)
(* of 0, 1 and MaxDevices sightings, all Phone except at most one other    *)
(* sighting at the front, at the LogLimit-th place or behind it; and the   *)
(* devices values that are not lists.                                      *)
(***************************************************************************)
Fill(n, p, s) == [i \in 1..n |-> IF i = p THEN s ELSE Phone]

DeviceLists ==
    { Fill(n, p, s) : n \in {0, 1, MaxDevices},
                      p \in {0, 1} \cup LogLimit..MaxDevices,
                      s \in {Anonymous, NullName, ListRssi, NumMac, JNum(5), JNull} }

DevicesValues ==
    {JArr(a) : a \in DeviceLists}
        \cup {JNull, JNum(5), JBool(TRUE), JStr(<<>>), X, JObj(NoKeys), JObj("name" :> X)}

Uploads ==
    Unparsed \cup {Json(v) : v \in NonObjects \cup Incomplete \cup Complete}
        \cup {Json(Upload(Esp, d)) : d \in DevicesValues}

(***************************************************************************)
(* State.                                                                  *)
(*   received_data  the module-level list                                  *)
(*   now            the server clock datetime.now() reads                  *)
(*   pc             where each thread is in the handler it runs            *)
(*   request        flask.request of each thread                           *)
(*   data           the local `data` of receive_ble_data                   *)
(*   total_uploads  len(received_data) as get_data evaluated it            *)
(*   response       the response sent last                                 *)
(*   answered       the request that response answers                      *)
(*   dispatched     requests handed to a handler so far                    *)
(*   accepted       POSTs answered {status: "ok"} so far                   *)
(***************************************************************************)
VARIABLES received_data, now, pc, request, data, total_uploads, response,
          answered, dispatched, accepted

vars == <<received_data, now, pc, request, data, total_uploads, response,
          answered, dispatched, accepted>>

Init ==
    /\ received_data = <<>>
    /\ now = 0
    /\ pc = [t \in Threads |-> "idle"]
    /\ request = [t \in Threads |-> NoRequest]
    /\ data = [t \in Threads |-> JNull]
    /\ total_uploads = [t \in Threads |-> 0]
    /\ response = NoResponse
    /\ answered = NoRequest
    /\ dispatched = 0
    /\ accepted = 0

(***************************************************************************)
(* datetime.now(): the clock never runs backwards; what it did between two *)
(* readings shows only in the later reading.                               *)
(***************************************************************************)
ReadClock == now' \in now..MaxTime

(***************************************************************************)
(* @app.route: a request arrives and a thread enters the handler of its    *)
(* route.  The server starts a thread per request; threads are alike, so   *)
(* the request goes to the first idle one.  A handler whose first          *)
(* statement is its only access to shared state runs it on arrival.        *)
(***************************************************************************)
Arrives(t, limit) ==
    /\ pc[t] = "idle"
    /\ \A u \in Threads : u < t => pc[u] # "idle"
    /\ dispatched < limit
    /\ dispatched' = dispatched + 1

Route(t, req, limit) ==
    /\ Arrives(t, limit)
    /\ pc' = [pc EXCEPT ![t] = "receive_ble_data"]
    /\ request' = [request EXCEPT ![t] = req]
    /\ UNCHANGED <<received_data, now, data, total_uploads, response, answered,
                   accepted>>

Post(t) == \E req \in Requests : Route(t, req, MaxRequests)

PostUpload(t) == \E req \in Uploads : Route(t, req, MaxUploads)

Return(t, r) ==
    /\ pc' = [pc EXCEPT ![t] = "idle"]
    /\ request' = [request EXCEPT ![t] = NoRequest]
    /\ response' = r
    /\ answered' = request[t]

\* health_check reporting a count of the successful uploads instead of the list
health_check_accepted(t) ==
    /\ Arrives(t, MaxRequests)
    /\ ReadClock
    /\ response' = [op |-> "health", code |-> 200, status |-> "ok",
                    timestamp |-> JTime(now'),
                    devices_received |-> accepted]
    /\ answered' = NoRequest
    /\ UNCHANGED <<received_data, pc, request, data, total_uploads, accepted>>

(***************************************************************************)
(* GET /api/health                                                         *)
(***************************************************************************)
health_check(t) ==
    /\ Arrives(t, MaxRequests)
    /\ ReadClock
    /\ response' = [op |-> "health", code |-> 200, status |-> "ok",
                    timestamp |-> JTime(now'),
                    devices_received |-> Len(received_data)]
    /\ answered' = NoRequest
    /\ UNCHANGED <<received_data, pc, request, data, total_uploads, accepted>>

(***************************************************************************)
(* POST /api/esp32/ble, lines 35-46: parse, validate, stamp.  An exception *)
(* is caught by the handler's except clause and answered with 500.         *)
(***************************************************************************)
receive_ble_data(t) ==
    /\ pc[t] = "receive_ble_data"
    /\ \E parsed \in get_json(request[t]) :
          IF parsed.exc # ""
          THEN Return(t, Error(500, parsed.exc)) /\ UNCHANGED <<data, now>>
          ELSE IF Validate(parsed.val) # NoResponse
          THEN Return(t, Validate(parsed.val)) /\ UNCHANGED <<data, now>>
          ELSE /\ ReadClock
               /\ data' = [data EXCEPT
                             ![t] = SetItem(parsed.val, "received_at", JTime(now'))]
               /\ pc' = [pc EXCEPT ![t] = "store_data"]
               /\ UNCHANGED <<request, response, answered>>
    /\ UNCHANGED <<received_data, total_uploads, dispatched, accepted>>

\* store_data skipping an upload whose payload is already stored
store_data_once(t) ==
    /\ pc[t] = "store_data"
    /\ received_data' =
          IF \E i \in 1..Len(received_data) :
                /\ received_data[i].o["device_id"] = data[t].o["device_id"]
                /\ received_data[i].o["devices"] = data[t].o["devices"]
          THEN received_data
          ELSE Append(received_data, data[t])
    /\ pc' = [pc EXCEPT ![t] = "print_summary"]
    /\ UNCHANGED <<now, request, data, total_uploads, response, answered,
                   dispatched, accepted>>

\* store_data putting the newest upload first
store_data_front(t) ==
    /\ pc[t] = "store_data"
    /\ received_data' = <<data[t]>> \o received_data
    /\ pc' = [pc EXCEPT ![t] = "print_summary"]
    /\ UNCHANGED <<now, request, data, total_uploads, response, answered,
                   dispatched, accepted>>

(***************************************************************************)
(* Line 49: received_data.append(data)                                     *)
(***************************************************************************)
store_data(t) ==
    /\ pc[t] = "store_data"
    /\ received_data' = Append(received_data, data[t])
    /\ pc' = [pc EXCEPT ![t] = "print_summary"]
    /\ UNCHANGED <<now, request, data, total_uploads, response, answered,
                   dispatched, accepted>>

(***************************************************************************)
(* Lines 52-78: the summary, then the success response, or the 500 of the  *)
(* except clause when the summary raises.                                  *)
(***************************************************************************)
print_summary(t) ==
    /\ pc[t] = "print_summary"
    /\ \E r \in Summary(data[t]) :
          /\ Return(t, r)
          /\ accepted' = IF r.code = 200 THEN accepted + 1 ELSE accepted
    /\ data' = [data EXCEPT ![t] = JNull]
    /\ UNCHANGED <<received_data, now, total_uploads, dispatched>>

(***************************************************************************)
(* GET /api/data.  The dict literal evaluates len(received_data) first;    *)
(* jsonify walks the list afterwards.                                      *)
(***************************************************************************)
get_data(t) ==
    /\ Arrives(t, MaxRequests)
    /\ total_uploads' = [total_uploads EXCEPT ![t] = Len(received_data)]
    /\ pc' = [pc EXCEPT ![t] = "jsonify"]
    /\ UNCHANGED <<received_data, now, request, data, response, answered, accepted>>

jsonify(t) ==
    /\ pc[t] = "jsonify"
    /\ Return(t, [op |-> "data", code |-> 200,
                  total_uploads |-> total_uploads[t], data |-> received_data])
    /\ total_uploads' = [total_uploads EXCEPT ![t] = 0]
    /\ UNCHANGED <<received_data, now, data, dispatched, accepted>>

(***************************************************************************)
(* GET /                                                                   *)
(***************************************************************************)
index(t) ==
    /\ Arrives(t, MaxRequests)
    /\ response' = [op |-> "index", code |-> 200, uploads |-> Len(received_data)]
    /\ answered' = NoRequest
    /\ UNCHANGED <<received_data, now, pc, request, data, total_uploads, accepted>>

Next ==
    \/ \E t \in Threads :
          \/ Post(t)
          \/ health_check(t)
          \/ receive_ble_data(t)
          \/ store_data(t)
          \/ print_summary(t)
          \/ get_data(t)
          \/ jsonify(t)
          \/ index(t)

Spec == Init /\ [][Next]_vars

(***************************************************************************)
(* The upload path alone, fed with every shape of devices value.           *)
(***************************************************************************)
NextUpload ==
    \/ \E t \in Threads :
          \/ PostUpload(t)
          \/ receive_ble_data(t)
          \/ store_data(t)
          \/ print_summary(t)

SpecUpload == Init /\ [][NextUpload]_vars

(***************************************************************************)
(* Vocabulary of the properties.                                           *)
(***************************************************************************)
IsJson(req) == req.ctype = "json" /\ req.raw = "json"

IsObject(req) == IsJson(req) /\ req.val.k = "obj"

HasRequired(req) ==
    IsObject(req) /\ {"device_id", "devices"} \subseteq DOMAIN req.val.o

LacksRequired(req) ==
    IsObject(req) /\ ~({"device_id", "devices"} \subseteq DOMAIN req.val.o)

NoObject(req) ==
    /\ req.ctype = "json"
    /\ req.raw \in {"empty", "garbage"} \/ (req.raw = "json" /\ req.val.k # "obj")

\* thread t leaves the stage `at` of its handler in this step
Leaves(t, at) == pc[t] = at /\ pc'[t] # at

Quiet == \A t \in Threads : pc[t] = "idle"

\* report is payload plus the server's received_at
Stamped(report, payload) ==
    /\ report.k = "obj"
    /\ DOMAIN report.o = DOMAIN payload.o \cup {"received_at"}
    /\ \A key \in DOMAIN payload.o \ {"received_at"} : report.o[key] = payload.o[key]
    /\ report.o["received_at"].k = "time"

IsPrefix(s, t) == Len(s) <= Len(t) /\ SubSeq(t, 1, Len(s)) = s

(***************************************************************************)
(* C1: a POST whose body is a JSON object with the keys device_id and      *)
(* devices, whatever their values and whatever else it carries, is never   *)
(* rejected before the store; its call appends exactly one Report, the     *)
(* payload with the server's received_at, to the end of received_data, so  *)
(* the length grows by exactly 1; no other step of the call touches the    *)
(* list.  Nothing makes the append conditional on what is already stored.  *)
(***************************************************************************)
C1_IngestAppendsOne ==
    [][\A t \in Threads :
          /\ Leaves(t, "receive_ble_data") /\ HasRequired(request[t])
                => pc'[t] = "store_data" /\ received_data' = received_data
          /\ Leaves(t, "store_data")
                => /\ HasRequired(request[t])
                   /\ Len(received_data') = Len(received_data) + 1
                   /\ IsPrefix(received_data, received_data')
                   /\ Stamped(received_data'[Len(received_data')], request[t].val)
                   /\ pc'[t] = "print_summary"
          /\ Leaves(t, "print_summary")
                => received_data' = received_data /\ pc'[t] = "idle"]_vars

\* the same payload was submitted twice and is stored twice
C1_Witness ==
    /\ Len(received_data) = 2
    /\ received_data[1] = received_data[2]
    /\ Quiet

(***************************************************************************)
(* C2: a POST whose body is a JSON object lacking device_id or lacking     *)
(* devices is answered 400 and leaves received_data as it was.             *)
(***************************************************************************)
C2_MissingFieldsRejected ==
    [][\A t \in Threads :
          Leaves(t, "receive_ble_data") /\ LacksRequired(request[t])
             => /\ pc'[t] = "idle"
                /\ response'.op = "ble" /\ response'.code = 400
                /\ answered' = request[t]
                /\ received_data' = received_data]_vars

\* {"device_id": "esp32-1"} was answered 400 "Missing required fields"
C2_Witness ==
    /\ answered = Json(JObj("device_id" :> Esp))
    /\ response = Error(400, "Missing required fields")
    /\ received_data = <<>>

(***************************************************************************)
(* C3: a POST whose body is empty, is not JSON, or is a JSON value other   *)
(* than an object is answered 400 "No data provided" and nothing else, and *)
(* leaves received_data as it was.                                         *)
(***************************************************************************)
C3_NoDataProvided ==
    [][\A t \in Threads :
          Leaves(t, "receive_ble_data") /\ NoObject(request[t])
             => /\ pc'[t] = "idle"
                /\ response' = Error(400, "No data provided")
                /\ received_data' = received_data]_vars

(***************************************************************************)
(* C4: with no request in progress, the devices_received that GET          *)
(* /api/health returns is the number of POSTs answered {status: "ok"} so   *)
(* far; a POST answered 400 or 500 is not counted.                         *)
(***************************************************************************)
C4_HealthCountsAccepted ==
    (response.op = "health" /\ Quiet) => response.devices_received = accepted

(***************************************************************************)
(* C5: every Report in received_data has a non-null device_id, a devices   *)
(* list, and the received_at the server stamped.                           *)
(***************************************************************************)
C5_StoredReportsWellFormed ==
    \A i \in 1..Len(received_data) :
        LET report == received_data[i].o
        IN  /\ {"device_id", "devices", "received_at"} \subseteq DOMAIN report
            /\ report["device_id"].k # "null"
            /\ report["devices"].k = "arr"
            /\ report["received_at"].k = "time"

(***************************************************************************)
(* C6: received_data only grows at its end: in every step the list before  *)
(* is a prefix of the list after, so nothing stored is moved, dropped or   *)
(* changed; and the data of a GET /api/data response is received_data      *)
(* itself, in the order of the appends.                                    *)
(***************************************************************************)
C6_AppendOnlyInOrder ==
    [][/\ IsPrefix(received_data, received_data')
       /\ \A t \in Threads :
             Leaves(t, "jsonify")
                => response'.op = "data" /\ response'.data = received_data]_vars

\* a dump lists two different Reports, the one stored first in front
C6_Witness ==
    /\ response.op = "data"
    /\ Len(response.data) = 2
    /\ response.data[1] # response.data[2]
    /\ response.data = received_data

(***************************************************************************)
(* C7: the summary changes neither what is stored nor the response: for a  *)
(* payload whose devices is a list, whatever the sightings in it, the call *)
(* returns {status: "ok", received: <length of the list>}, the response of *)
(* the handler with its print statements and their loop taken out, and     *)
(* received_data is as the append left it.                                 *)
(***************************************************************************)
C7_SummaryHasNoEffect ==
    [][\A t \in Threads :
          Leaves(t, "print_summary") /\ data[t].o["devices"].k = "arr"
             => /\ response' = Ok(Len(data[t].o["devices"].a))
                /\ received_data' = received_data]_vars

(***************************************************************************)
(* C8: the three GET handlers never fail and never change received_data;   *)
(* the count each reports is the length of received_data in the state the  *)
(* handler read it.                                                        *)
(***************************************************************************)
GetArrives == dispatched' = dispatched + 1 /\ request' = request

C8_QueriesReadOnly ==
    [][/\ GetArrives =>
            /\ received_data' = received_data
            /\ \/ /\ pc' = pc
                  /\ response'.op = "health"
                  /\ response'.code = 200 /\ response'.status = "ok"
                  /\ response'.devices_received = Len(received_data)
               \/ /\ pc' = pc
                  /\ response'.op = "index"
                  /\ response'.code = 200
                  /\ response'.uploads = Len(received_data)
               \/ \E t \in Threads :
                     /\ pc[t] = "idle" /\ pc'[t] = "jsonify"
                     /\ total_uploads'[t] = Len(received_data)
       /\ \A t \in Threads :
             Leaves(t, "jsonify")
                => /\ received_data' = received_data
                   /\ pc'[t] = "idle"
                   /\ response'.op = "data" /\ response'.code = 200
                   /\ response'.total_uploads = total_uploads[t]]_vars

\* a health check reported a stored upload that had been answered 500
C8_Witness ==
    /\ response.op = "health"
    /\ response.devices_received = 1
    /\ Len(received_data) = 1
    /\ accepted = 0
    /\ Quiet

(***************************************************************************)
(* C9: in every GET /api/data response, total_uploads is the number of     *)
(* Reports in data, whatever POSTs run beside the handler.                 *)
(***************************************************************************)
C9_DumpConsistent ==
    response.op = "data" => response.total_uploads = Len(response.data)

(***************************************************************************)
(* C10: the received_at values in received_data never decrease along the   *)
(* list, whatever the interleaving of the POSTs that stamped them.         *)
(***************************************************************************)
C10_TimestampsOrdered ==
    \A i, j \in 1..Len(received_data) :
        i < j => received_data[i].o["received_at"].t <= received_data[j].o["received_at"].t

====
